---------------------------- MODULE Spec2Model ----------------------------
(***************************************************************************)
(* Model of sktime's series annotation core:                               *)
(*   - BaseSeriesAnnotator (sktime/annotation/base/_base.py): the fitted   *)
(*     state life cycle and the sparse/dense converters;                   *)
(*   - BinarySegmentation (sktime/annotation/bs.py): the recursive CUMSUM  *)
(*     change point search.                                                *)
(*                                                                         *)
(* Conventions.  A pandas Series / numpy array with the default            *)
(* RangeIndex is a TLA+ sequence; position p (0-based, "iloc") is element  *)
(* p + 1 of the sequence.  An optional value is Nothing (Python's None)   *)
(* or Some(v).  A call that raises is a record whose err field names the  *)
(* exception.                                                              *)
(*                                                                         *)
(* Numbers.  Series values and thresholds are integers.  The CUMSUM        *)
(* statistic |w_left*sum(left) - w_right*sum(right)| equals                *)
(* |r*sum(left) - l*sum(right)| / sqrt(n*l*r) (l, r the two run lengths),  *)
(* so it is kept as the pair (num, den) and compared by cross              *)
(* multiplication of squares.  The code computes it in float64, where two  *)
(* statistics that are exactly equal can be computed as different floats   *)
(* and a statistic that is exactly 0 as a positive residue.  FloatResidue  *)
(* and FloatLarger list every such case among the windows of the series    *)
(* drawn here, so that np.argmax and the threshold test decide as the      *)
(* float64 code does.                                                      *)
(***************************************************************************)
EXTENDS Integers, Sequences, FiniteSets, TLC

VARIABLES
    X,              \* the series the client passes to the annotator
    threshold,      \* BinarySegmentation.threshold
    change_points,  \* SpecBS: the last run of _predict (NoRun before)
    prev,           \* SpecBS: the run before the threshold was changed
    call_stack,     \* SpecSearch: the calls of _find_change_points to run
    appended,       \* SpecSearch: the change_points list the calls append to
    search_err,     \* SpecSearch: the exception the search raised, or "none"
    is_fitted,      \* Spec: self._is_fitted
    stored_X,       \* Spec: self._X
    stored_Y,       \* Spec: self._Y
    outcome,        \* Spec: what the last call returned or raised
    y_sparse,       \* SpecConv: the converter's input
    args,           \* SpecConv: the optional arguments length, start, end
    y_dense,        \* SpecConv: the dense series produced from y_sparse
    y_out           \* SpecConv: the converter's final output

vars == <<X, threshold, change_points, prev, call_stack, appended, search_err,
          is_fitted,
          stored_X, stored_Y, outcome, y_sparse, args, y_dense, y_out>>


\* ------------------------------------------------------------------ bounds
MaxLen == 7         \* longest series X drawn for the search
MaxThreshold == 2   \* largest threshold drawn

Values == {0, 1}
Thresholds == (-1) .. MaxThreshold

\* The documented instances (bs.py docstring).  The second one is
\* [1.1, 1.3, -1.4, -1.4, 5.5, 5.6] with threshold 1, in tenths: the
\* statistic is homogeneous, so series and threshold scale together.
DocX1 == <<1, 1, 1, 1, 5, 5, 5, 5>>
DocX2 == <<11, 13, -14, -14, 55, 56>>
DocThreshold1 == 1
DocThreshold2 == 10 * DocThreshold1

RECURSIVE SeqsUpTo(_, _)
SeqsUpTo(S, n) ==
    IF n = 0 THEN {<<>>}
    ELSE LET shorter == SeqsUpTo(S, n - 1)
         IN shorter \cup {Append(s, v) : s \in {q \in shorter : Len(q) = n - 1}, v \in S}

Series == SeqsUpTo(Values, MaxLen)

\* --------------------------------------------------------- numpy helpers
Abs(v) == IF v < 0 THEN -v ELSE v

RECURSIVE np_sum(_, _, _)
\* np.sum(X.iloc[lo : hi + 1]), positions lo..hi inclusive
np_sum(S, lo, hi) == IF hi < lo THEN 0 ELSE S[hi + 1] + np_sum(S, lo, hi - 1)

\* -------------------------------------------------- BinarySegmentation
\* The statistic of a window [start, end] split after change_point:
\* num/sqrt(den) = |w_left * sum(left) - w_right * sum(right)|.  l, r, left
\* and right are kept: they determine the float64 value.
_cumsum_statistic(S, start, end, change_point) ==
    IF change_point < start \/ change_point >= end
    THEN [err |-> "RuntimeError", num |-> 0, den |-> 1,
          l |-> 0, r |-> 0, left |-> 0, right |-> 0]
    ELSE LET n == end - start + 1
             l == change_point - start + 1
             r == end - change_point
             left == np_sum(S, start, change_point)
             right == np_sum(S, change_point + 1, end)
         IN [err |-> "none", num |-> Abs(r * left - l * right), den |-> n * l * r,
             l |-> l, r |-> r, left |-> left, right |-> right]

\* float64 rounding, lines 85-93 evaluated in IEEE-754 double arithmetic.
\* An entry <<l, r, left, right>> is a split with l values summing to left
\* before it and r values summing to right after it.  The lists are complete
\* for the windows of 0/1 series of up to 8 values and of DocX1.
\*   FloatResidue: the exact statistic is 0, the computed one is > 0
\*     (e.g. six 1s split 1|5: sqrt(5/6)*1 - sqrt(1/30)*5 = 1.1e-16).
\*   FloatLarger: <<a, b>>, two splits of one window whose exact statistics
\*     are equal while the computed statistic of a is larger than that of b.
\* No statistic of these windows that exactly equals a threshold >= 1 is
\* computed above it.
FloatResidue ==
    { <<1, 5, 1, 5>>, <<5, 1, 5, 1>>, <<1, 7, 1, 7>>, <<7, 1, 7, 1>>,
      <<3, 5, 3, 5>>, <<5, 3, 5, 3>> }

FloatLarger ==
    { << <<1, 5, 1, 2>>, <<5, 1, 3, 0>> >>, << <<5, 1, 2, 1>>, <<1, 5, 0, 3>> >>,
      << <<2, 6, 0, 2>>, <<6, 2, 1, 1>> >>, << <<2, 6, 0, 4>>, <<6, 2, 2, 2>> >>,
      << <<2, 6, 1, 5>>, <<6, 2, 4, 2>> >>, << <<6, 2, 2, 0>>, <<2, 6, 1, 1>> >>,
      << <<6, 2, 4, 0>>, <<2, 6, 2, 2>> >>, << <<6, 2, 5, 1>>, <<2, 6, 2, 4>> >>,
      << <<3, 5, 3, 5>>, <<1, 7, 1, 7>> >>, << <<3, 5, 3, 5>>, <<7, 1, 7, 1>> >>,
      << <<5, 3, 5, 3>>, <<1, 7, 1, 7>> >>, << <<5, 3, 5, 3>>, <<7, 1, 7, 1>> >> }

SplitOf(st) == <<st.l, st.r, st.left, st.right>>

\* a < b for two computed statistics of one window
StatLess(a, b) ==
    \/ a.num * a.num * b.den < b.num * b.num * a.den
    \/ /\ a.num * a.num * b.den = b.num * b.num * a.den
       /\ \/ <<SplitOf(b), SplitOf(a)>> \in FloatLarger
          \/ /\ a.num = 0
             /\ SplitOf(b) \in FloatResidue
             /\ SplitOf(a) \notin FloatResidue

\* costs: the list of one statistic per candidate of range(start, end)
\* a mutation of Costs: the candidates run through end, range(start, end + 1)
Costs_through_end(S, start, end) ==
    [i \in 1 .. (end - start + 1) |-> _cumsum_statistic(S, start, end, start + i - 1)]

\* costs: the statistic of every candidate in range(start, end)
Costs(S, start, end) ==
    [i \in 1 .. (end - start) |-> _cumsum_statistic(S, start, end, start + i - 1)]

\* np.argmax(costs): the first (0-based) index holding the maximum
np_argmax(costs) ==
    LET maxima == {i \in DOMAIN costs : \A j \in DOMAIN costs : ~StatLess(costs[i], costs[j])}
    IN (CHOOSE i \in maxima : \A j \in maxima : i <= j) - 1

\* np.max(costs)
np_max(costs) == costs[np_argmax(costs) + 1]

\* a mutation of MaxExceeds: a maximum equal to the threshold splits too
MaxExceeds_or_equal(best, t) ==
    \/ t < 0
    \/ best.num * best.num >= t * t * best.den

\* a mutation of MaxExceeds: the comparison reversed
MaxExceeds_reversed(best, t) ==
    t >= 0 /\ best.num * best.num < t * t * best.den

\* np.max(costs) > threshold
MaxExceeds(best, t) ==
    \/ t < 0
    \/ best.num * best.num > t * t * best.den
    \/ (best.num = 0 /\ t = 0 /\ SplitOf(best) \in FloatResidue)

RECURSIVE _find_change_points(_, _, _, _, _)
\* Returns the accumulator change_points after the call (the code appends
\* to the list it is handed).
_find_change_points(S, start, end, t, acc) ==
    IF end - start < 1 THEN acc
    ELSE LET costs == Costs(S, start, end)
         IN IF MaxExceeds(np_max(costs), t)
            THEN LET new_change_point == start + np_argmax(costs)
                     found == Append(acc, new_change_point)
                     lefts == _find_change_points(S, start, new_change_point, t, found)
                 IN _find_change_points(S, new_change_point + 1, end, t, lefts)
            ELSE acc

\* a mutation of Sorted: the list is left as the recursion filled it
Sorted_skipped(s) == s

\* list.sort()
Sorted(s) == SortSeq(s, LAMBDA a, b : a < b)

\* X.index of a series with the default index: RangeIndex(0, len(X))
RangeIndex(S) == [i \in 1 .. Len(S) |-> i - 1]

\* X.index[change_points]: the index labels at the given positions
IndexLabels(S, points) == [i \in 1 .. Len(points) |-> RangeIndex(S)[points[i] + 1]]

_predict(S, t) ==
    IndexLabels(S, Sorted(_find_change_points(S, 0, Len(S) - 1, t, <<>>)))

\* ------------------------------------------- sparse/dense converters
\* A call's result: err is "none" or the exception raised; kind tells what
\* val holds ("points": positions; "dense": one label per position;
\* "segments": rows [seg_label, seg_start, seg_end]; "intervals": rows
\* [left, right, label] of a left-closed IntervalIndex; "self").
Nothing == <<>>
Some(v) == <<v>>
NoOutcome == [call |-> "none", err |-> "none", kind |-> "none", val |-> <<>>]
Raise(call, e) == [call |-> call, err |-> e, kind |-> "none", val |-> <<>>]
Return(call, kind, v) == [call |-> call, err |-> "none", kind |-> kind, val |-> v]

\* y_sparse arguments: a Series of positions (ndim 1) or a DataFrame of
\* segments (ndim 2)
PointsArg(p) == [ndim |-> 1, val |-> p]
SegmentsArg(rows) == [ndim |-> 2, val |-> rows]

\* y_dense.iloc[positions] = values, one assignment after the other; a
\* negative position counts from the end
\* a mutation of iloc_at: the position taken as a 1-based cell number
iloc_at_one_based(pos, len) == pos

iloc_at(pos, len) == IF pos < 0 THEN len + pos + 1 ELSE pos + 1
iloc_set(dense, positions, values) ==
    [i \in 1 .. Len(dense) |->
        LET hits == {k \in 1 .. Len(positions) : iloc_at(positions[k], Len(dense)) = i}
        IN IF hits = {} THEN dense[i]
           ELSE values[CHOOSE k \in hits : \A m \in hits : m <= k]]

Column(rows, name) == [i \in 1 .. Len(rows) |-> rows[i][name]]
\* a mutation of Negated: the end of a segment is marked with the label itself
Negated_kept(values) == values

Negated(values) == [i \in 1 .. Len(values) |-> Some(-values[i][1])]
Cells(values) == [i \in 1 .. Len(values) |-> Some(values[i])]

\* Series.ffill(): a NaN cell (Nothing) takes the last value before it
ffill(cells) ==
    [i \in 1 .. Len(cells) |->
        LET valid == {k \in 1 .. i : cells[k] # Nothing}
        IN IF valid = {} THEN cells[i]
           ELSE cells[CHOOSE k \in valid : \A m \in valid : m <= k]]

\* a mutation of length_too_short: a length equal to the final index accepted
length_too_short_strict(length, final_index) == length < final_index

\* length <= final_index
length_too_short(length, final_index) == length <= final_index

sparse_to_dense_points(p, length) ==
    IF p = <<>> THEN Raise("sparse_to_dense", "IndexError")
    ELSE LET final_index == p[Len(p)]
             len == IF length = Nothing THEN p[Len(p)] + 1 ELSE length[1]
         IN IF length_too_short(len, final_index)
            THEN Raise("sparse_to_dense", "RuntimeError")
            ELSE IF \E i \in 1 .. Len(p) : p[i] >= len \/ p[i] < -len
            THEN Raise("sparse_to_dense", "IndexError")
            ELSE Return("sparse_to_dense", "dense",
                        iloc_set([i \in 1 .. len |-> 0], p, [i \in 1 .. Len(p) |-> 1]))

sparse_to_dense_segments(rows, length) ==
    IF rows = <<>> THEN Raise("sparse_to_dense", "IndexError")
    ELSE LET final_index == rows[Len(rows)].seg_end
             len == IF length = Nothing THEN rows[Len(rows)].seg_end + 1 ELSE length[1]
             starts == Column(rows, "seg_start")
             ends == Column(rows, "seg_end")
             labels == Cells(Column(rows, "seg_label"))
         IN IF length_too_short(len, final_index)
            THEN Raise("sparse_to_dense", "RuntimeError")
            ELSE IF \E i \in 1 .. Len(rows) : starts[i] >= len \/ ends[i] >= len
            THEN Raise("sparse_to_dense", "IndexError")
            ELSE LET nans == [i \in 1 .. len |-> Nothing]
                     marked == iloc_set(iloc_set(nans, starts, labels), ends, Negated(labels))
                     headed == IF marked[1] = Nothing
                               THEN [marked EXCEPT ![1] = Some(-1)] ELSE marked
                     filled == ffill(headed)
                     fixed == iloc_set(filled, ends, labels)
                 IN Return("sparse_to_dense", "dense",
                           [i \in 1 .. len |-> IF fixed[i][1] < 0 THEN -1 ELSE fixed[i][1]])

sparse_to_dense(y, length) ==
    IF y.ndim = 1 THEN sparse_to_dense_points(y.val, length)
    ELSE IF y.ndim = 2 THEN sparse_to_dense_segments(y.val, length)
    ELSE Raise("sparse_to_dense", "TypeError")

RECURSIVE Ascending(_)
\* the members of a set of integers as an ascending sequence
Ascending(S) ==
    IF S = {} THEN <<>>
    ELSE LET m == CHOOSE v \in S : \A w \in S : v <= w
         IN <<m>> \o Ascending(S \ {m})

\* np.where(mask)[0]: the positions, ascending, at which the mask is True
np_where(mask) == Ascending({i - 1 : i \in {j \in 1 .. Len(mask) : mask[j]}})

\* a mutation of DiffNonZero: the NaN at the first entry counted as no change
DiffNonZero_no_first(dense, i) == i # 1 /\ dense[i] # dense[i - 1]

\* y_dense.diff() != 0 (the first entry of diff is NaN, and NaN != 0)
DiffNonZero(dense, i) == i = 1 \/ dense[i] # dense[i - 1]
\* a mutation of DiffBackNonZero: the backward difference taken forward
DiffBackNonZero_forward(dense, i) == DiffNonZero(dense, i)

\* y_dense.diff(-1) != 0 (the last entry is NaN)
DiffBackNonZero(dense, i) == i = Len(dense) \/ dense[i] # dense[i + 1]

dense_to_sparse(dense) ==
    IF \E i \in 1 .. Len(dense) : dense[i] = 0
    THEN Return("dense_to_sparse", "points",
                np_where([i \in 1 .. Len(dense) |-> dense[i] = 1]))
    ELSE LET segment_start_indexes ==
                 np_where([i \in 1 .. Len(dense) |-> DiffNonZero(dense, i)])
             segment_end_indexes ==
                 np_where([i \in 1 .. Len(dense) |-> DiffBackNonZero(dense, i)])
             rows == [k \in 1 .. Len(segment_start_indexes) |->
                        [seg_label |-> dense[segment_start_indexes[k] + 1],
                         seg_start |-> segment_start_indexes[k],
                         seg_end |-> segment_end_indexes[k]]]
         IN Return("dense_to_sparse", "segments",
                   SelectSeq(rows, LAMBDA row : row.seg_label # -1))

RECURSIVE np_min(_)
np_min(values) ==
    IF Len(values) = 1 THEN values[1]
    ELSE LET m == np_min(Tail(values))
         IN IF values[1] <= m THEN values[1] ELSE m

\* a mutation of left_in_range: every interval counts as in range
left_in_range_always(left, first_change_point) == TRUE

\* index.left >= first_change_point, for one interval
left_in_range(left, first_change_point) == left >= first_change_point

\* start and end are optional: Nothing is Python's None
change_points_to_segments(p, start, end) ==
    IF p = <<>> THEN Raise("change_points_to_segments", "ValueError")
    ELSE IF start = Nothing THEN Raise("change_points_to_segments", "TypeError")
    ELSE IF start[1] > np_min(p) THEN Raise("change_points_to_segments", "ValueError")
    ELSE LET first_change_point == np_min(p)
             breaks == start \o p \o end
             index == [i \in 1 .. (Len(breaks) - 1) |->
                         [left |-> breaks[i], right |-> breaks[i + 1]]]
             in_range == [i \in 1 .. Len(index) |->
                             left_in_range(index[i].left, first_change_point)]
             label_of(i) == Cardinality({j \in 1 .. i : in_range[j]})
         IN IF \E i \in 1 .. Len(index) : index[i].left > index[i].right
            THEN Raise("change_points_to_segments", "ValueError")
            ELSE Return("change_points_to_segments", "intervals",
                        [i \in 1 .. Len(index) |->
                            [left |-> index[i].left, right |-> index[i].right,
                             label |-> IF in_range[i] THEN label_of(i) ELSE -1]])

segments_to_change_points(y) ==
    LET y_dense_ == sparse_to_dense(y, Nothing)
    IN IF y_dense_.err # "none"
       THEN Raise("segments_to_change_points", y_dense_.err)
       ELSE Return("segments_to_change_points", "points",
                   np_where([i \in 1 .. Len(y_dense_.val) |->
                                i # 1 /\ y_dense_.val[i] # y_dense_.val[i - 1]]))

\* ------------------------------------------------------------- SpecBS
\* The search on its own: one BinarySegmentation model, one series, the
\* threshold hyper-parameter changed between runs.
NoRun == [run |-> FALSE, t |-> 0, points |-> <<>>]
NoInput == [ndim |-> 0, val |-> <<>>]
NoArgs == [length |-> Nothing, start |-> Nothing, end |-> Nothing]

\* The variables a specification does not use stay at these values.
LifeIdle ==
    /\ is_fitted = FALSE /\ stored_X = Nothing
    /\ stored_Y = Nothing /\ outcome = NoOutcome
SearchIdle == call_stack = <<>> /\ appended = <<>> /\ search_err = "none"
BSIdle == change_points = NoRun /\ prev = NoRun /\ SearchIdle
ConvIdle ==
    y_sparse = NoInput /\ args = NoArgs /\ y_dense = NoOutcome /\ y_out = NoOutcome

lifeVars == <<is_fitted, stored_X, stored_Y, outcome>>
searchVars == <<call_stack, appended, search_err>>
bsVars == <<change_points, prev, searchVars>>
convVars == <<y_sparse, args, y_dense, y_out>>

ThresholdsFor(S) ==
    IF S = DocX1 THEN {DocThreshold1}
    ELSE IF S = DocX2 THEN {DocThreshold2}
    ELSE Thresholds

InitBS ==
    /\ X \in Series \cup {DocX1, DocX2}
    /\ threshold \in ThresholdsFor(X)
    /\ BSIdle /\ LifeIdle /\ ConvIdle

\* model._predict(X) on the current hyper-parameter
BS_predict ==
    /\ change_points' = [run |-> TRUE, t |-> threshold,
                         points |-> _predict(X, threshold)]
    /\ UNCHANGED <<X, threshold, prev, searchVars, lifeVars, convVars>>

\* BinarySegmentation(threshold=t): the hyper-parameter is replaced; the
\* result obtained under the old one is remembered in prev.
set_threshold(t) ==
    /\ t # threshold
    /\ threshold' = t
    /\ prev' = IF change_points.run THEN change_points ELSE prev
    /\ change_points' = NoRun
    /\ UNCHANGED <<X, searchVars, lifeVars, convVars>>

NextBS ==
    \/ BS_predict
    \/ \E t \in ThresholdsFor(X) : set_threshold(t)

SpecBS == InitBS /\ [][NextBS]_vars


\* --------------------------------------------------------- SpecSearch
\* One search, call by call: call_stack holds the calls of
\* _find_change_points that are still to run, the next one first, each
\* with its window and its nesting depth (1 for the call _predict makes).
Call(start, end, depth) == [start |-> start, end |-> end, depth |-> depth]

SearchLen == 4      \* longest series searched call by call
SearchSeries == SeqsUpTo(Values, SearchLen) \cup {DocX1, DocX2}

InitSearch ==
    /\ X \in SearchSeries
    /\ threshold \in ThresholdsFor(X)
    /\ call_stack = <<Call(0, Len(X) - 1, 1)>>
    /\ appended = <<>> /\ search_err = "none"
    /\ change_points = NoRun /\ prev = NoRun
    /\ LifeIdle /\ ConvIdle

notSearch == <<X, threshold, change_points, prev, lifeVars, convVars>>

\* does the call find a maximum above the threshold
Splits(call) ==
    /\ call.end - call.start >= 1
    /\ LET costs == Costs(X, call.start, call.end)
       IN /\ \A i \in DOMAIN costs : costs[i].err = "none"
          /\ MaxExceeds(np_max(costs), threshold)

\* the next call returns without a change point: its window has fewer
\* than two values, or no statistic exceeds the threshold; a statistic
\* that raises ends the whole search
call_returns ==
    /\ call_stack # <<>>
    /\ ~Splits(Head(call_stack))
    /\ LET call == Head(call_stack)
           costs == Costs(X, call.start, call.end)
       IN IF call.end - call.start >= 1
             /\ \E i \in DOMAIN costs : costs[i].err # "none"
          THEN /\ search_err' = "RuntimeError"
               /\ call_stack' = <<>>
          ELSE /\ call_stack' = Tail(call_stack)
               /\ UNCHANGED search_err
    /\ UNCHANGED <<appended, notSearch>>

\* the next call appends new_change_point and calls itself on
\* [start, new_change_point] and then on [new_change_point + 1, end]
call_splits ==
    /\ call_stack # <<>>
    /\ Splits(Head(call_stack))
    /\ LET call == Head(call_stack)
           new_change_point == call.start + np_argmax(Costs(X, call.start, call.end))
       IN /\ appended' = Append(appended, new_change_point)
          /\ call_stack' = << Call(call.start, new_change_point, call.depth + 1),
                              Call(new_change_point + 1, call.end, call.depth + 1) >>
                           \o Tail(call_stack)
    /\ UNCHANGED <<search_err, notSearch>>

NextSearch == call_returns \/ call_splits

SpecSearch == InitSearch /\ [][NextSearch]_vars

\* every call that has been made runs to its end
FairSearch == SpecSearch /\ WF_vars(NextSearch)

\* ----------------------------------------------------------- SpecConv
\* The converters on their own: an input is drawn, sparse_to_dense and
\* then dense_to_sparse, or one of the two change point conversions, is
\* applied to it.
MaxPos == 4         \* largest position of a sparse input
MaxLabel == 2       \* largest segment label

\* SparsePoints: strictly increasing positions (possibly none)
SparsePoints == {Ascending(S) : S \in SUBSET (0 .. MaxPos)}

RECURSIVE SegmentsFrom(_)
\* SparseSegments whose positions are >= lo: sorted, non-overlapping,
\* start <= end, positive labels, gaps allowed
SegmentsFrom(lo) ==
    IF lo > MaxPos THEN {<<>>}
    ELSE {<<>>} \cup UNION {
        { <<[seg_label |-> t[1], seg_start |-> t[2], seg_end |-> t[3]]>> \o rest :
            rest \in SegmentsFrom(t[3] + 1) } :
        t \in {u \in (1 .. MaxLabel) \X (lo .. MaxPos) \X (lo .. MaxPos) : u[2] <= u[3]} }

SparseSegments == SegmentsFrom(0)

Optional(S) == {Nothing} \cup {Some(v) : v \in S}

\* the documented call change_points_to_segments([1, 2, 5], 0, 7)
DocPoints == <<1, 2, 5>>
DocArgs == [length |-> Nothing, start |-> Some(0), end |-> Some(7)]

\* the documented calls of sparse_to_dense and dense_to_sparse
DocSparsePoints == <<2, 5, 7>>
DocSparseSegments ==
    << [seg_label |-> 1, seg_start |-> 0, seg_end |-> 3],
       [seg_label |-> 2, seg_start |-> 4, seg_end |-> 5],
       [seg_label |-> 1, seg_start |-> 6, seg_end |-> 9] >>
DocDense == <<1, 2, 2, 3, 3, 2>>

\* DenseLabels a client hands to dense_to_sparse: 0/1 marks, or segment
\* labels with -1 for unlabelled positions
DenseInputs == SeqsUpTo((-1) .. MaxLabel, MaxPos + 1) \cup {DocDense}

InitConv ==
    /\ \/ /\ y_sparse = PointsArg(DocPoints)
          /\ args = DocArgs
          /\ y_dense = NoOutcome
       \/ /\ y_sparse = PointsArg(DocSparsePoints)
          /\ args = [NoArgs EXCEPT !.length = Some(10)]
          /\ y_dense = NoOutcome
       \/ /\ y_sparse = SegmentsArg(DocSparseSegments)
          /\ args = NoArgs
          /\ y_dense = NoOutcome
       \/ /\ y_sparse = NoInput
          /\ args = NoArgs
          /\ y_dense \in {Return("input", "dense", d) : d \in DenseInputs}
       \/ /\ y_sparse \in {PointsArg(p) : p \in SparsePoints}
          /\ args \in [length : Optional(0 .. (MaxPos + 2)),
                       start : Optional(0 .. MaxPos),
                       end : Optional(0 .. (MaxPos + 2))]
          /\ y_dense = NoOutcome
       \/ /\ y_sparse \in {SegmentsArg(rows) : rows \in SparseSegments}
          /\ args \in [length : Optional(0 .. (MaxPos + 2)),
                       start : {Nothing}, end : {Nothing}]
          /\ y_dense = NoOutcome
    /\ y_out = NoOutcome
    /\ X = <<>> /\ threshold = DocThreshold1
    /\ BSIdle /\ LifeIdle

otherVars == <<X, threshold, bsVars, lifeVars>>

call_sparse_to_dense ==
    /\ y_dense = NoOutcome /\ y_out = NoOutcome
    /\ y_dense' = sparse_to_dense(y_sparse, args.length)
    /\ UNCHANGED <<y_sparse, args, y_out, otherVars>>

call_dense_to_sparse ==
    /\ y_dense.kind = "dense" /\ y_out = NoOutcome
    /\ y_out' = dense_to_sparse(y_dense.val)
    /\ UNCHANGED <<y_sparse, args, y_dense, otherVars>>

call_change_points_to_segments ==
    /\ y_sparse.ndim = 1 /\ y_dense = NoOutcome /\ y_out = NoOutcome
    /\ y_out' = change_points_to_segments(y_sparse.val, args.start, args.end)
    /\ UNCHANGED <<y_sparse, args, y_dense, otherVars>>

call_segments_to_change_points ==
    /\ y_sparse.ndim = 2 /\ y_dense = NoOutcome /\ y_out = NoOutcome
    /\ y_out' = segments_to_change_points(y_sparse)
    /\ UNCHANGED <<y_sparse, args, y_dense, otherVars>>

NextConv ==
    \/ call_sparse_to_dense
    \/ call_dense_to_sparse
    \/ call_change_points_to_segments
    \/ call_segments_to_change_points

SpecConv == InitConv /\ [][NextConv]_vars

\* --------------------------------------------------------------- Spec
\* The life cycle of one BinarySegmentation annotator: a client calls the
\* public methods of BaseSeriesAnnotator in any order, on any series.
LifeLen == 2        \* longest series passed to a life cycle call
LifeSeries == SeqsUpTo(Values, LifeLen)
Annotations == {<<>>, <<0>>}            \* ground truth series Y, when given
LifeThresholds == {0, DocThreshold1}

\* BinarySegmentation._tags["task"]
task == "change_point_detection"

\* BaseEstimator.check_is_fitted: raises unless the flag is set
check_is_fitted(fitted) == IF fitted THEN "none" ELSE "NotFittedError"

\* a.combine_first(b), both on the default index: the values of a, then
\* those of b at the positions a does not have
combine_first(a, b) ==
    [i \in 1 .. (IF Len(a) >= Len(b) THEN Len(a) ELSE Len(b)) |->
        IF i <= Len(a) THEN a[i] ELSE b[i]]

\* the result r, reported as the result of the calling method
Called(call, r) == [r EXCEPT !.call = call]

\* the abstract hooks BinarySegmentation does not override
_predict_points(x) == Raise("_predict_points", "NotImplementedError")
_predict_segments(x) == Raise("_predict_segments", "NotImplementedError")
_predict_scores(x) == Raise("_predict_scores", "NotImplementedError")

\* a mutation of predict_result: the fitted-state guard is skipped
predict_result_unguarded(fitted, x, t) == Return("predict", "points", _predict(x, t))

\* self.predict(X) on an annotator whose _is_fitted flag is fitted
predict_result(fitted, x, t) ==
    IF check_is_fitted(fitted) # "none"
    THEN Raise("predict", check_is_fitted(fitted))
    ELSE Return("predict", "points", _predict(x, t))

\* self.predict_points(X)
predict_points_result(fitted, x) ==
    IF check_is_fitted(fitted) # "none"
    THEN Raise("predict_points", check_is_fitted(fitted))
    ELSE IF task \in {"anomaly_detection", "change_point_detection"}
    THEN Called("predict_points", _predict_points(x))
    ELSE LET segs == _predict_segments(x)
         IN IF segs.err # "none" THEN Called("predict_points", segs)
            ELSE Called("predict_points",
                        segments_to_change_points(SegmentsArg(segs.val)))

\* self.predict_segments(X): for a change point detector the points found
\* are handed to segments_to_change_points
predict_segments_result(fitted, x) ==
    IF task = "anomaly_detection" THEN Raise("predict_segments", "RuntimeError")
    ELSE IF check_is_fitted(fitted) # "none"
    THEN Raise("predict_segments", check_is_fitted(fitted))
    ELSE IF task = "change_point_detection"
    THEN LET pts == predict_points_result(fitted, x)
         IN IF pts.err # "none" THEN Called("predict_segments", pts)
            ELSE Called("predict_segments",
                        segments_to_change_points(PointsArg(pts.val)))
    ELSE Called("predict_segments", _predict_segments(x))

\* self.transform(X)
transform_result(fitted, x) ==
    LET Y == IF task \in {"anomaly_detection", "change_point_detection"}
             THEN predict_points_result(fitted, x)
             ELSE predict_segments_result(fitted, x)
    IN IF Y.err # "none" THEN Called("transform", Y)
       ELSE Called("transform",
                   sparse_to_dense([ndim |-> IF Y.kind = "points" THEN 1 ELSE 2,
                                    val |-> Y.val], Some(Len(x))))

Init ==
    /\ X = <<>>
    /\ threshold \in LifeThresholds
    /\ LifeIdle /\ BSIdle /\ ConvIdle

notLife == <<threshold, bsVars, convVars>>

fit(x, y) ==
    /\ X' = x
    /\ stored_X' = Some(x)
    /\ stored_Y' = y
    /\ is_fitted' = TRUE            \* self._fit is a no-op
    /\ outcome' = Return("fit", "self", <<>>)
    /\ UNCHANGED notLife

predict(x) ==
    /\ X' = x
    /\ outcome' = predict_result(is_fitted, x, threshold)
    /\ UNCHANGED <<is_fitted, stored_X, stored_Y, notLife>>

predict_points(x) ==
    /\ X' = x
    /\ outcome' = predict_points_result(is_fitted, x)
    /\ UNCHANGED <<is_fitted, stored_X, stored_Y, notLife>>

predict_segments(x) ==
    /\ X' = x
    /\ outcome' = predict_segments_result(is_fitted, x)
    /\ UNCHANGED <<is_fitted, stored_X, stored_Y, notLife>>

predict_scores(x) ==
    /\ X' = x
    /\ outcome' = IF check_is_fitted(is_fitted) # "none"
                  THEN Raise("predict_scores", check_is_fitted(is_fitted))
                  ELSE Called("predict_scores", _predict_scores(x))
    /\ UNCHANGED <<is_fitted, stored_X, stored_Y, notLife>>

transform(x) ==
    /\ X' = x
    /\ outcome' = transform_result(is_fitted, x)
    /\ UNCHANGED <<is_fitted, stored_X, stored_Y, notLife>>

\* update stores the new data before it reaches Y.combine_first(self._Y),
\* which fails on an annotator fitted without Y; _update re-fits (a no-op)
update(x, y) ==
    /\ X' = x
    /\ IF check_is_fitted(is_fitted) # "none"
       THEN /\ outcome' = Raise("update", check_is_fitted(is_fitted))
            /\ UNCHANGED <<stored_X, stored_Y>>
       ELSE /\ stored_X' = Some(combine_first(x, stored_X[1]))
            /\ IF y = Nothing
               THEN /\ outcome' = Return("update", "nothing", <<>>)
                    /\ UNCHANGED stored_Y
               ELSE IF stored_Y = Nothing
               THEN /\ outcome' = Raise("update", "AttributeError")
                    /\ UNCHANGED stored_Y
               ELSE /\ outcome' = Return("update", "nothing", <<>>)
                    /\ stored_Y' = Some(combine_first(y[1], stored_Y[1]))
    /\ UNCHANGED <<is_fitted, notLife>>

\* self.update(X=X) and then self.predict(X=X)
update_predict(x) ==
    /\ X' = x
    /\ IF check_is_fitted(is_fitted) # "none"
       THEN /\ outcome' = Raise("update_predict", check_is_fitted(is_fitted))
            /\ UNCHANGED stored_X
       ELSE /\ stored_X' = Some(combine_first(x, stored_X[1]))
            /\ outcome' = Called("update_predict",
                                 predict_result(is_fitted, x, threshold))
    /\ UNCHANGED <<is_fitted, stored_Y, notLife>>

\* self.fit(X, Y).predict(X)
fit_predict(x, y) ==
    /\ X' = x
    /\ stored_X' = Some(x)
    /\ stored_Y' = y
    /\ is_fitted' = TRUE
    /\ outcome' = Called("fit_predict", predict_result(TRUE, x, threshold))
    /\ UNCHANGED notLife

Next ==
    \E x \in LifeSeries :
        \/ \E y \in Optional(Annotations) : fit(x, y)
        \/ predict(x)
        \/ predict_points(x)
        \/ predict_segments(x)
        \/ predict_scores(x)
        \/ transform(x)
        \/ \E y \in Optional(Annotations) : update(x, y)
        \/ update_predict(x)
        \/ \E y \in Optional(Annotations) : fit_predict(x, y)

Spec == Init /\ [][Next]_vars

\* ------------------------------------------------- claims on the search
Range(s) == {s[i] : i \in DOMAIN s}

\* X is a two-level step series: L values a, then n - L values b, a # b
StepAt(S, L) ==
    /\ 1 <= L /\ L < Len(S)
    /\ \A i \in 1 .. L : S[i] = S[1]
    /\ \A i \in (L + 1) .. Len(S) : S[i] = S[Len(S)]
    /\ S[1] # S[Len(S)]

\* what C2 says predict returns on a step series
StepPrediction(S, L, t) ==
    LET a == S[1]
        b == S[Len(S)]
    IN IF (a - b) * (a - b) * L * (Len(S) - L) > t * t * Len(S)
       THEN <<L - 1>> ELSE <<>>

DocInstancesHold ==
    /\ (X = DocX1 /\ change_points.t = DocThreshold1) => change_points.points = <<3>>
    /\ (X = DocX2 /\ change_points.t = DocThreshold2) => change_points.points = <<1, 3>>

\* C2 as stated: on every two-level step series and for every threshold
\* t >= 0, predict returns [L-1] when (a-b)^2 L (n-L) > t^2 n and nothing
\* otherwise; the two documented instances give [3] and [1, 3].
C2_AsStated ==
    change_points.run =>
        /\ \A L \in 1 .. Len(X) :
              (StepAt(X, L) /\ change_points.t >= 0)
                  => change_points.points = StepPrediction(X, L, change_points.t)
        /\ DocInstancesHold

\* C2 amended: the same for every threshold above the rounding residue of
\* the statistic (here: t >= 1; t = 0 is excluded, where a constant run is
\* split by the residue that float64 computes above 0).
C2_StepSeries ==
    change_points.run =>
        /\ \A L \in 1 .. Len(X) :
              (StepAt(X, L) /\ change_points.t >= 1)
                  => change_points.points = StepPrediction(X, L, change_points.t)
        /\ DocInstancesHold

\* a step series whose step is found under a threshold >= 1
C2_Witness ==
    /\ change_points.run /\ change_points.t >= 1
    /\ \E L \in 1 .. Len(X) : StepAt(X, L) /\ change_points.points = <<L - 1>>

\* C3: threshold monotonicity.  Of two runs on the same series, the one
\* with the larger threshold finds a subset of the other's change points,
\* hence no more of them.
C3_Monotone ==
    (prev.run /\ change_points.run) =>
        /\ prev.t <= change_points.t
              => /\ Range(change_points.points) \subseteq Range(prev.points)
                 /\ Len(change_points.points) <= Len(prev.points)
        /\ change_points.t <= prev.t
              => /\ Range(prev.points) \subseteq Range(change_points.points)
                 /\ Len(prev.points) <= Len(change_points.points)

\* two runs, the second with a larger threshold and strictly fewer points
C3_Witness ==
    /\ prev.run /\ change_points.run
    /\ prev.t < change_points.t
    /\ Len(change_points.points) < Len(prev.points)
    /\ change_points.points # <<>>

\* C4: the result of predict is strictly increasing, every position lies
\* in [0, len(X)), the last position is never reported, and a series of
\* length 0 or 1 yields nothing.
C4_ValidPoints ==
    change_points.run =>
        LET p == change_points.points
        IN /\ \A i \in 1 .. (Len(p) - 1) : p[i] < p[i + 1]
           /\ \A i \in 1 .. Len(p) : 0 <= p[i] /\ p[i] < Len(X) - 1
           /\ Len(X) <= 1 => p = <<>>

\* a run whose recursion appended the points out of order
C4_Witness ==
    /\ change_points.run
    /\ Len(change_points.points) >= 2
    /\ _find_change_points(X, 0, Len(X) - 1, threshold, <<>>) # change_points.points

\* --------------------------------------------- claims on the converters
StrictlyIncreasing(p) == \A i \in 1 .. (Len(p) - 1) : p[i] < p[i + 1]

\* the round trip of points was asked for: points p, a length above max(p)
PointsRoundTrip ==
    /\ y_sparse.ndim = 1 /\ y_sparse.val # <<>>
    /\ StrictlyIncreasing(y_sparse.val)
    /\ args.length # Nothing
    /\ args.length[1] > y_sparse.val[Len(y_sparse.val)]

PointsReturned ==
    /\ y_dense # NoOutcome => y_dense.kind = "dense"
    /\ y_out.call = "dense_to_sparse"
          => y_out = Return("dense_to_sparse", "points", y_sparse.val)

\* C5 as stated: for every strictly increasing p and every L > max(p),
\* dense_to_sparse(sparse_to_dense(p, L)) returns the positions of p, in
\* ascending order, as points.
C5_AsStated == PointsRoundTrip => PointsReturned

\* C5 amended: the same, provided some position of [0, L) is not in p (a
\* dense series without a 0 is read back as segments).
C5_RoundTrip ==
    (PointsRoundTrip /\ Len(y_sparse.val) < args.length[1]) => PointsReturned

\* two points and a longer series went through both conversions
C5_Witness ==
    /\ PointsRoundTrip
    /\ Len(y_sparse.val) >= 2 /\ Len(y_sparse.val) < args.length[1]
    /\ y_out = Return("dense_to_sparse", "points", y_sparse.val)

\* the round trip of segments was asked for: rows that are contiguous, have
\* positive labels and cover [0, L)
SegmentsRoundTrip ==
    /\ y_sparse.ndim = 2 /\ y_sparse.val # <<>>
    /\ LET rows == y_sparse.val
       IN /\ rows[1].seg_start = 0
          /\ \A i \in 1 .. Len(rows) :
                rows[i].seg_label > 0 /\ rows[i].seg_start <= rows[i].seg_end
          /\ \A i \in 1 .. (Len(rows) - 1) :
                rows[i].seg_end + 1 = rows[i + 1].seg_start
          /\ args.length \in {Nothing, Some(rows[Len(rows)].seg_end + 1)}

SegmentsReturned ==
    /\ y_dense # NoOutcome => y_dense.kind = "dense"
    /\ y_out.call = "dense_to_sparse"
          => y_out = Return("dense_to_sparse", "segments", y_sparse.val)

AdjacentLabelsDiffer ==
    \A i \in 1 .. (Len(y_sparse.val) - 1) :
        y_sparse.val[i].seg_label # y_sparse.val[i + 1].seg_label

\* C6 as stated: for every contiguous table with positive labels covering
\* [0, L), dense_to_sparse(sparse_to_dense(segments)) returns the same
\* (label, start, end) rows in the same order.
C6_AsStated == SegmentsRoundTrip => SegmentsReturned

\* C6 amended: the same, provided neighbouring segments carry different
\* labels (two neighbours with one label come back as a single run).
C6_RoundTrip == (SegmentsRoundTrip /\ AdjacentLabelsDiffer) => SegmentsReturned

\* two segments, one longer than a single position, came back unchanged
C6_Witness ==
    /\ SegmentsRoundTrip /\ AdjacentLabelsDiffer
    /\ Len(y_sparse.val) >= 2
    /\ \E i \in 1 .. Len(y_sparse.val) :
          y_sparse.val[i].seg_start < y_sparse.val[i].seg_end
    /\ y_out = Return("dense_to_sparse", "segments", y_sparse.val)

\* the seg_start of every row but one at position 0, in row order
StartsAfterZero(rows) ==
    LET starts == Column(rows, "seg_start")
    IN SelectSeq(starts, LAMBDA v : v # 0)

\* C8: for every valid table (sorted, non-overlapping, positive labels,
\* gaps allowed), segments_to_change_points returns exactly the seg_start
\* of every segment except one starting at position 0, and nothing else.
C8_SegmentStarts ==
    (y_out.call = "segments_to_change_points" /\ y_sparse.val # <<>>)
        => y_out = Return("segments_to_change_points", "points",
                          StartsAfterZero(y_sparse.val))

\* a call of change_points_to_segments on strictly increasing points with
\* an end that is omitted or lies after the last point
SegmentsOfPointsCalled ==
    /\ y_out.call = "change_points_to_segments"
    /\ y_sparse.val # <<>> /\ StrictlyIncreasing(y_sparse.val)
    /\ args.end # Nothing => args.end[1] > y_sparse.val[Len(y_sparse.val)]

\* C9: change_points_to_segments raises ValueError exactly when a start
\* greater than the minimum change point is supplied; a call that omits
\* start, or passes start <= the minimum, raises nothing and returns the
\* labelled intervals.
C9_StartOptional ==
    SegmentsOfPointsCalled =>
        IF args.start # Nothing /\ args.start[1] > y_sparse.val[1]
        THEN y_out.err = "ValueError"
        ELSE y_out.err = "none" /\ y_out.kind = "intervals"

\* the intervals over the breaks start, points..., end: the first one
\* labelled -1, the one beginning at the k-th point labelled k
LabelledIntervals(p, start, end) ==
    LET breaks == <<start>> \o p \o <<end>>
    IN [i \in 1 .. (Len(p) + 1) |->
           [left |-> breaks[i], right |-> breaks[i + 1],
            label |-> IF i = 1 THEN -1 ELSE i - 1]]

StartAndEndGiven ==
    /\ SegmentsOfPointsCalled
    /\ args.start # Nothing /\ args.end # Nothing

IntervalsReturned ==
    /\ y_out = Return("change_points_to_segments", "intervals",
                      LabelledIntervals(y_sparse.val, args.start[1], args.end[1]))
    /\ (y_sparse.val = DocPoints /\ args = DocArgs)
          => y_out.val = << [left |-> 0, right |-> 1, label |-> -1],
                            [left |-> 1, right |-> 2, label |-> 1],
                            [left |-> 2, right |-> 5, label |-> 2],
                            [left |-> 5, right |-> 7, label |-> 3] >>

\* C10 as stated: for start <= min(points) and end > max(points) the
\* result is the half-open intervals over start, points..., end, the first
\* labelled -1 and the following ones 1, 2, 3, ...; ([1,2,5], 0, 7) gives
\* [0,1)=-1, [1,2)=1, [2,5)=2, [5,7)=3.
C10_AsStated ==
    (StartAndEndGiven /\ args.start[1] <= y_sparse.val[1]) => IntervalsReturned

\* C10 amended: the same for start < min(points) (with start = min(points)
\* the first interval is empty, begins at the first point and is labelled
\* 1, and every later label is one higher).
C10_Labels ==
    (StartAndEndGiven /\ args.start[1] < y_sparse.val[1]) => IntervalsReturned

\* the documented call has returned
C10_Witness ==
    /\ StartAndEndGiven
    /\ y_sparse.val = DocPoints /\ args = DocArgs
    /\ y_out.err = "none" /\ Len(y_out.val) = 4

\* --------------------------------------------- claims on the life cycle
Guarded == {"predict", "predict_points", "predict_segments", "predict_scores",
            "update", "update_predict"}

\* C1: a predict-family or update call returns a result only on a fitted
\* annotator, and the flag is set by nothing but a completed fit; called
\* on an unfitted annotator it raises NotFittedError and leaves the flag
\* and the stored data unchanged; a fitted annotator stays fitted.
C1_FittedGuard ==
    [][ /\ (outcome'.call \in Guarded /\ outcome'.err = "none") => is_fitted
        /\ (~is_fitted /\ is_fitted') => outcome'.call \in {"fit", "fit_predict"}
        /\ (~is_fitted /\ outcome'.call \in Guarded)
              => /\ outcome'.err = "NotFittedError"
                 /\ UNCHANGED <<is_fitted, stored_X, stored_Y>>
        /\ is_fitted => is_fitted' ]_vars

\* update_predict was called on the unfitted annotator and raised
C1_Witness ==
    /\ ~is_fitted /\ stored_X = Nothing
    /\ outcome = Raise("update_predict", "NotFittedError")

\* C7: on a fitted change point detector predict_segments returns segment
\* form output, the labelled segments between the change points, and not
\* a series of positions.
C7_SegmentForm ==
    (is_fitted /\ outcome.call = "predict_segments")
        => outcome.err = "none" /\ outcome.kind \in {"segments", "intervals"}

\* ------------------------------- claims on sparse_to_dense, dense_to_sparse
\* the label every position of a series of len entries should carry
SegmentDense(rows, len) ==
    [i \in 1 .. len |->
        LET inside == {k \in 1 .. Len(rows) :
                          rows[k].seg_start <= i - 1 /\ i - 1 <= rows[k].seg_end}
        IN IF inside = {} THEN -1
           ELSE rows[CHOOSE k \in inside : TRUE].seg_label]

\* sparse_to_dense was called on a table of segments with the length
\* omitted or above the last seg_end
SegmentsToDenseCalled ==
    /\ y_sparse.ndim = 2 /\ y_sparse.val # <<>>
    /\ y_dense.call = "sparse_to_dense"
    /\ args.length # Nothing
          => args.length[1] > y_sparse.val[Len(y_sparse.val)].seg_end

LengthUsed(last) == IF args.length = Nothing THEN last + 1 ELSE args.length[1]

PointDense(p, len) ==
    [i \in 1 .. len |-> IF \E k \in 1 .. Len(p) : p[k] = i - 1 THEN 1 ELSE 0]

\* sparse_to_dense was called on strictly increasing points: the empty
\* sequence with a length, or points with the length omitted or above max(p)
PointsToDenseCalled ==
    /\ y_sparse.ndim = 1 /\ StrictlyIncreasing(y_sparse.val)
    /\ y_dense.call = "sparse_to_dense"
    /\ IF y_sparse.val = <<>> THEN args.length # Nothing
       ELSE args.length # Nothing
               => args.length[1] > y_sparse.val[Len(y_sparse.val)]

\* C12: sparse_to_dense on points (the empty sequence included, when a
\* length is given) returns exactly `length` entries (default: max(p) + 1),
\* 1 at exactly the positions of p and 0 elsewhere; ([2,5,7], 10) gives
\* [0,0,1,0,0,1,0,1,0,0].
C12_PointsDense ==
    PointsToDenseCalled =>
        LET p == y_sparse.val
            len == LengthUsed(IF p = <<>> THEN -1 ELSE p[Len(p)])
        IN /\ y_dense = Return("sparse_to_dense", "dense", PointDense(p, len))
           /\ (p = DocSparsePoints /\ args.length = Some(10))
                 => y_dense.val = <<0, 0, 1, 0, 0, 1, 0, 1, 0, 0>>

\* the last position (1-based) of the run of equal labels that begins at s
RunEnd(d, s) ==
    CHOOSE e \in s .. Len(d) :
        /\ \A i \in s .. e : d[i] = d[s]
        /\ e = Len(d) \/ d[e + 1] # d[s]

\* one row per maximal run of a label other than -1, in position order
LabelledRuns(d) ==
    LET begins == Ascending({s \in 1 .. Len(d) : s = 1 \/ d[s] # d[s - 1]})
        runs == [k \in 1 .. Len(begins) |->
                    [seg_label |-> d[begins[k]],
                     seg_start |-> begins[k] - 1,
                     seg_end |-> RunEnd(d, begins[k]) - 1]]
    IN SelectSeq(runs, LAMBDA row : row.seg_label # -1)

\* dense_to_sparse was called on a non-empty series of positive labels
\* and -1 gaps
LabelsToSparseCalled ==
    /\ y_out.call = "dense_to_sparse"
    /\ y_dense.val # <<>>
    /\ \A i \in 1 .. Len(y_dense.val) : y_dense.val[i] = -1 \/ y_dense.val[i] > 0

\* C13: dense_to_sparse on a series without a 0 returns one record per
\* maximal run of a constant label, seg_start its first and seg_end its
\* last position, in position order, without the runs labelled -1; the
\* first run starts at position 0 and the last run ends at the last
\* position; [1,2,2,3,3,2] gives (1,0,0), (2,1,2), (3,3,4), (2,5,5).
C13_Runs ==
    LabelsToSparseCalled =>
        LET d == y_dense.val
        IN /\ y_out = Return("dense_to_sparse", "segments", LabelledRuns(d))
           /\ d[1] # -1 => y_out.val[1].seg_start = 0
           /\ d[Len(d)] # -1 => y_out.val[Len(y_out.val)].seg_end = Len(d) - 1
           /\ d = DocDense
                 => y_out.val = << [seg_label |-> 1, seg_start |-> 0, seg_end |-> 0],
                                   [seg_label |-> 2, seg_start |-> 1, seg_end |-> 2],
                                   [seg_label |-> 3, seg_start |-> 3, seg_end |-> 4],
                                   [seg_label |-> 2, seg_start |-> 5, seg_end |-> 5] >>

\* a series with a -1 gap between two labelled runs was converted
C13_Witness ==
    /\ LabelsToSparseCalled
    /\ \E i \in 2 .. (Len(y_dense.val) - 1) :
          /\ y_dense.val[i] = -1
          /\ y_dense.val[i - 1] > 0 /\ y_dense.val[i + 1] > 0
    /\ Len(y_out.val) >= 2

\* the largest position a sparse input refers to
MaxReferenced(y) ==
    LET at(i) == IF y.ndim = 1 THEN y.val[i] ELSE y.val[i].seg_end
    IN at(CHOOSE i \in 1 .. Len(y.val) : \A j \in 1 .. Len(y.val) : at(j) <= at(i))

\* sparse_to_dense was called on non-empty points or segments
ToDenseCalled ==
    /\ y_sparse.ndim \in {1, 2} /\ y_sparse.val # <<>>
    /\ y_dense.call = "sparse_to_dense"

\* C14: sparse_to_dense raises its range error (RuntimeError) and returns
\* no dense output whenever the given length is <= the largest referenced
\* position (max(index) of points, max(seg_end) of segments); for every
\* length above it, and with the length omitted, it raises nothing.
C14_LengthError ==
    ToDenseCalled =>
        IF args.length # Nothing /\ args.length[1] <= MaxReferenced(y_sparse)
        THEN y_dense = Raise("sparse_to_dense", "RuntimeError")
        ELSE y_dense.err = "none" /\ y_dense.kind = "dense"

\* a table of segments was given a length equal to its last seg_end
C14_Witness ==
    /\ ToDenseCalled /\ y_sparse.ndim = 2
    /\ args.length = Some(MaxReferenced(y_sparse))
    /\ y_dense.err = "RuntimeError"

\* ---------------------------------------- claims on transform, the search
\* C15: on a fitted BinarySegmentation annotator transform(X) returns a
\* dense series of len(X) labels, 1 at exactly the change points that
\* predict(X) reports and 0 elsewhere (also when there is none), and
\* predict_points(X) returns the change points of predict(X).
C15_TransformDense ==
    /\ (is_fitted /\ outcome.call = "transform")
          => outcome = Return("transform", "dense",
                              PointDense(_predict(X, threshold), Len(X)))
    /\ (is_fitted /\ outcome.call = "predict_points")
          => outcome = Return("predict_points", "points", _predict(X, threshold))

\* the number of values in a call's window [start, end]
WindowSize(call) == call.end - call.start + 1

\* no statistic has raised, every pending call has its window inside the
\* series, and its depth is at most len(X) (the one call made on an empty
\* series has depth 1)
SearchBounded ==
    /\ search_err = "none"
    /\ \A i \in DOMAIN call_stack :
          /\ 0 <= call_stack[i].start /\ call_stack[i].end <= Len(X) - 1
          /\ call_stack[i].depth <= (IF Len(X) = 0 THEN 1 ELSE Len(X))

\* what one call does to the pending calls: it adds none, or the two calls
\* on [start, c] and [c + 1, end] for the point c it appended, start <= c <
\* end, both on fewer values than its own window; a window of fewer than
\* two values adds none
SearchShrinks ==
    [][ call_stack' # call_stack =>
          LET call == Head(call_stack)
              added == Len(call_stack') - Len(call_stack) + 1
          IN /\ added \in {0, 2}
             /\ WindowSize(call) <= 1 => added = 0
             /\ added = 0 => appended' = appended
             /\ added = 2 =>
                   LET c == appended'[Len(appended')]
                   IN /\ Len(appended') = Len(appended) + 1
                      /\ call.start <= c /\ c < call.end
                      /\ call_stack'[1] = Call(call.start, c, call.depth + 1)
                      /\ call_stack'[2] = Call(c + 1, call.end, call.depth + 1)
                      /\ WindowSize(call_stack'[1]) < WindowSize(call)
                      /\ WindowSize(call_stack'[2]) < WindowSize(call) ]_vars

\* C16: the search terminates: every call made after a point is recorded
\* is on a strictly smaller window ([start, c*] and [c*+1, end]), a window
\* with end - start < 1 is never split, every statistic is requested for a
\* candidate inside [start, end), so that the RuntimeError is never raised,
\* and the recursion depth never exceeds len(X).
C16_Terminates ==
    /\ []SearchBounded
    /\ SearchShrinks
    /\ <>(call_stack = <<>>)

\* a search that recorded three change points has run to its end
C16_Witness ==
    /\ call_stack = <<>> /\ search_err = "none"
    /\ Len(X) >= 4 /\ Len(appended) >= 3

\* the calls append what the recursion of _find_change_points returns
SearchAgrees ==
    (Len(X) >= 1 /\ call_stack = <<>> /\ search_err = "none")
        => appended = _find_change_points(X, 0, Len(X) - 1, threshold, <<>>)

=============================================================================
